---------------------------- MODULE Spec2Model ----------------------------
(***************************************************************************)
(* A model of just_tbp: the response normalizers of just_tbp/utils.py and  *)
(* the endpoint methods of just_tbp/client.py (TPBClient) and              *)
(* just_tbp/async_client.py (AsyncTPBClient).                              *)
(*                                                                         *)
(* Decoded JSON is a tagged value; a Python call either returns a value or *)
(* raises, and the exception's class is kept because the except clauses of *)
(* the code select on it.                                                  *)
(***************************************************************************)
EXTENDS Integers, Sequences, FiniteSets, TLC

VARIABLES pc, call, resp, raw, outcome, sessions, self, lifecycle, calls

vars == <<pc, call, resp, raw, outcome, sessions, self, lifecycle, calls>>

-----------------------------------------------------------------------------
(* Decoded JSON values (what response.json() hands to the code).           *)
(* A text is a sequence of symbols; a symbol is one character, except that *)
(* a fixed phrase the code only compares for equality is kept as one       *)
(* symbol.                                                                 *)

JNull == [t |-> "null"]
JBool(b) == [t |-> "bool", b |-> b]
JInt(i) == [t |-> "int", i |-> i]
\* an integer beyond the width of the model's integers: hi * 10^6 + lo, with
\* lo in 0..999999; such integers are followed under the key `added` only
JWide(hi, lo) == [t |-> "wide", n |-> [hi |-> hi, lo |-> lo]]
\* a finite float with a fractional part: whole is its truncation toward 0
JFloat(whole) == [t |-> "float", whole |-> whole, inf |-> FALSE]
\* the float a decoder produces for a literal such as 1e400
JInf == [t |-> "float", whole |-> 0, inf |-> TRUE]
JStr(s) == [t |-> "str", s |-> s]
JList(l) == [t |-> "list", l |-> l]
\* a mapping keeps its insertion order: a sequence of <<key, value>> pairs
JMap(m) == [t |-> "map", m |-> m]

IsList(v) == v.t = "list"
IsMap(v) == v.t = "map"
IsStr(v) == v.t = "str"

\* Python truthiness of a decoded value
Truthy(v) ==
  CASE v.t = "null" -> FALSE
    [] v.t = "bool" -> v.b
    [] v.t = "int" -> v.i # 0
    [] v.t = "wide" -> v.n # [hi |-> 0, lo |-> 0]
    [] v.t = "float" -> TRUE
    [] v.t = "str" -> Len(v.s) > 0
    [] v.t = "list" -> Len(v.l) > 0
    [] v.t = "map" -> Len(v.m) > 0

HasKey(m, k) == \E n \in 1..Len(m) : m[n][1] = k

\* dict.get(k, dflt)
Get(m, k, dflt) ==
  IF HasKey(m, k) THEN m[CHOOSE n \in 1..Len(m) : m[n][1] = k][2] ELSE dflt

-----------------------------------------------------------------------------
(* Results of a Python call.                                               *)

Ok(v) == [ok |-> TRUE, v |-> v]
\* exc: the exception class; why: which raise statement; info: what the
\* message is formatted from
Raise(exc, why, info) == [ok |-> FALSE, exc |-> exc, why |-> why, info |-> info]

-----------------------------------------------------------------------------
(* Python's built-ins on texts and numbers.                                *)

DecDigits == <<"0", "1", "2", "3", "4", "5", "6", "7", "8", "9">>

IsDecDigit(c) == \E d \in 1..10 : DecDigits[d] = c
DigitValue(c) == (CHOOSE d \in 1..10 : DecDigits[d] = c) - 1

\* str.isdigit() also accepts digits int() does not parse, e.g. U+00B2
IsDigitChar(c) == IsDecDigit(c) \/ c = "sup2"
IsSpace(c) == c = " "

RECURSIVE LStrip(_)
LStrip(s) == IF Len(s) > 0 /\ IsSpace(Head(s)) THEN LStrip(Tail(s)) ELSE s

RECURSIVE RStrip(_)
RStrip(s) ==
  IF Len(s) > 0 /\ IsSpace(s[Len(s)]) THEN RStrip(SubSeq(s, 1, Len(s) - 1)) ELSE s

\* str.strip()
Strip(s) == RStrip(LStrip(s))

\* str.isdigit()
IsDigit(s) == Len(s) > 0 /\ \A n \in 1..Len(s) : IsDigitChar(s[n])

RECURSIVE DigitsValue(_)
DigitsValue(s) ==
  IF Len(s) = 0 THEN 0
  ELSE 10 * DigitsValue(SubSeq(s, 1, Len(s) - 1)) + DigitValue(s[Len(s)])

AllDecDigits(s) == Len(s) > 0 /\ \A n \in 1..Len(s) : IsDecDigit(s[n])

\* int(<str>) once the sign is taken off: digits must be decimal digits
ParseDigits(s, negative, digits) ==
  IF AllDecDigits(digits)
  THEN Ok(IF negative THEN 0 - DigitsValue(digits) ELSE DigitsValue(digits))
  ELSE Raise("ValueError", "int", JStr(s))

\* int(<str>) on the stripped text body: one leading sign is accepted
ParseSigned(s, body) ==
  IF Len(body) > 0 /\ body[1] \in {"-", "+"}
  THEN ParseDigits(s, body[1] = "-", Tail(body))
  ELSE ParseDigits(s, FALSE, body)

\* int(<str>): surrounding whitespace is accepted
ParseInt(s) == ParseSigned(s, Strip(s))

\* int(v) on a decoded value
PyInt(v) ==
  CASE v.t = "int" -> Ok(v.i)
    [] v.t = "wide" -> Ok(v.n)
    [] v.t = "bool" -> Ok(IF v.b THEN 1 ELSE 0)
    [] v.t = "float" -> IF v.inf THEN Raise("OverflowError", "int", v) ELSE Ok(v.whole)
    [] v.t = "str" -> ParseInt(v.s)
    [] OTHER -> Raise("TypeError", "int", v)

RECURSIVE NatText(_)
NatText(n) ==
  IF n < 10 THEN <<DecDigits[n + 1]>> ELSE NatText(n \div 10) \o <<DecDigits[(n % 10) + 1]>>

IntText(n) == IF n < 0 THEN <<"-">> \o NatText(0 - n) ELSE NatText(n)

\* str(v) on a decoded value
PyStr(v) ==
  CASE v.t = "str" -> v.s
    [] v.t = "int" -> IntText(v.i)
    [] v.t = "bool" -> IF v.b THEN <<"True">> ELSE <<"False">>
    [] v.t = "null" -> <<"None">>
    [] v.t = "float" -> IF v.inf THEN <<"inf">> ELSE IntText(v.whole) \o <<".", "5">>
    [] v.t = "list" -> <<"[", "...", "]">>
    [] v.t = "map" -> <<"{", "...", "}">>

LowerChar(c) == CASE c = "A" -> "a" [] c = "B" -> "b" [] OTHER -> c

\* str.lower()
Lower(s) == [n \in 1..Len(s) |-> LowerChar(s[n])]

-----------------------------------------------------------------------------
(* utils.py: field coercion shared by Torrent and TorrentDetails.          *)

\* the boundary 253402300799 of utils.py line 26, as 253402300 * 1000 + 799
MaxValidTsKilo == 253402300
MaxValidTsRem == 799

\* integers of the timestamp computation, wide: hi * 10^6 + lo
Wide(n) == [hi |-> n \div 1000000, lo |-> n % 1000000]

\* a < b
WideLess(a, b) == a.hi < b.hi \/ (a.hi = b.hi /\ a.lo < b.lo)

\* w // 1000
WideFloorDiv1000(w) ==
  [hi |-> w.hi \div 1000, lo |-> (w.hi % 1000) * 1000 + w.lo \div 1000]

MaxValidTs ==
  [hi |-> MaxValidTsKilo \div 1000, lo |-> (MaxValidTsKilo % 1000) * 1000 + MaxValidTsRem]

ExceedsMaxValidTs(n) == WideLess(MaxValidTs, n)

\* int(data.get(key, 0))
IntField(data, key) == PyInt(Get(data, key, JInt(0)))

WidenResult(r) == IF r.ok THEN Ok(Wide(r.v)) ELSE r

\* a text of more decimal digits than the model's integers hold
IsLongDigits(s) == Len(s) > 9 /\ AllDecDigits(s)

WideOfDigits(s) ==
  [ hi |-> DigitsValue(SubSeq(s, 1, Len(s) - 6)),
    lo |-> DigitsValue(SubSeq(s, Len(s) - 5, Len(s))) ]

\* int(v), as a wide integer
PyWideInt(v) ==
  IF v.t = "wide" THEN Ok(v.n)
  ELSE IF IsStr(v) /\ IsLongDigits(Strip(v.s)) THEN Ok(WideOfDigits(Strip(v.s)))
  ELSE WidenResult(PyInt(v))

\* a variant that also divides the boundary value itself
MillisecondHeuristicFromBoundary(r) ==
  IF ~r.ok THEN r
  ELSE IF ~WideLess(r.v, MaxValidTs) THEN Ok(WideFloorDiv1000(r.v)) ELSE r

\* lines 26-27 on the result r of int(data.get("added", 0))
MillisecondHeuristic(r) ==
  IF ~r.ok THEN r
  ELSE IF ExceedsMaxValidTs(r.v) THEN Ok(WideFloorDiv1000(r.v)) ELSE r

\* added_ts, lines 24-27
AddedTs(data) == MillisecondHeuristic(PyWideInt(Get(data, "added", JInt(0))))

\* data.get("info_hash", "").lower(): only a str has .lower()
LowerOf(v) ==
  IF IsStr(v) THEN Ok(JStr(Lower(v.s))) ELSE Raise("AttributeError", "lower", v)

InfoHashField(data) == LowerOf(Get(data, "info_hash", JStr(<<>>)))

\* the times a datetime holds, in seconds since the epoch:
\* 0001-01-01T00:00:00Z (-62135596800) to 9999-12-31T23:59:59Z (253402300799)
MinCalendarTs == [hi |-> -62136, lo |-> 403200]
MaxCalendarTs == [hi |-> 253402, lo |-> 300799]

\* datetime.fromtimestamp(added_ts, tz=timezone.utc), as seconds since the
\* epoch; a year outside 1..9999 is a ValueError for every added_ts the
\* wide integers hold
FromTimestamp(ts) ==
  IF WideLess(ts, MinCalendarTs) \/ WideLess(MaxCalendarTs, ts)
  THEN Raise("ValueError", "fromtimestamp", ts)
  ELSE Ok(ts)

\* line 38, reached only when added_ts was computed
AddedField(r) == IF r.ok THEN FromTimestamp(r.v) ELSE r

\* the conditional without its strip() test
ImdbOfUnstripped(v) == IF Truthy(v) THEN v ELSE JNull

\* data.get("imdb") if data.get("imdb") and str(data.get("imdb")).strip() else None
ImdbOf(v) == IF Truthy(v) /\ Len(Strip(PyStr(v))) > 0 THEN v ELSE JNull

ImdbField(data) == ImdbOf(Get(data, "imdb", JNull))

\* The expressions of lines 24-40 that can raise, in evaluation order.
StepOrder ==
  << "added_ts", "id", "info_hash", "leechers", "seeders", "num_files", "size",
     "added", "category" >>

CommonSteps(data) ==
  [ added_ts |-> AddedTs(data),
    id |-> IntField(data, "id"),
    info_hash |-> InfoHashField(data),
    leechers |-> IntField(data, "leechers"),
    seeders |-> IntField(data, "seeders"),
    num_files |-> IntField(data, "num_files"),
    size |-> IntField(data, "size"),
    added |-> AddedField(AddedTs(data)),
    category |-> IntField(data, "category") ]

\* the dict of lines 29-42, from the values f of the steps
CommonRecord(data, f) ==
  [ id |-> f.id.v,
    name |-> Get(data, "name", JStr(<<>>)),
    info_hash |-> f.info_hash.v,
    leechers |-> f.leechers.v,
    seeders |-> f.seeders.v,
    num_files |-> f.num_files.v,
    size |-> f.size.v,
    username |-> Get(data, "username", JStr(<<"Anonymous">>)),
    added |-> f.added.v,
    status |-> Get(data, "status", JStr(<<>>)),
    category |-> f.category.v,
    imdb |-> ImdbField(data) ]

\* except (ValueError, TypeError) as e: raise TPBContentError(...) from e
WrapsAsContentError(exc) == exc \in {"ValueError", "TypeError"}

\* line 45 for the exception e of the step that raised; any other exception
\* class leaves the function as it is
CommonFailure(item, e) ==
  IF WrapsAsContentError(e.exc)
  THEN Raise("TPBContentError", "common_fields", [cause |-> e, data |-> item])
  ELSE e

\* the first step that raises decides; with none the dict is returned
CommonResult(item, f) ==
  LET failed == {n \in 1..Len(StepOrder) : ~f[StepOrder[n]].ok}
  IN  IF failed = {} THEN Ok(CommonRecord(item.m, f))
      ELSE CommonFailure(item, f[StepOrder[CHOOSE n \in failed : \A k \in failed : n <= k]])

\* _parse_common_torrent_fields(data); item is any decoded value, and
\* data.get on anything but a dict is an AttributeError
ParseCommonTorrentFields(item) ==
  IF ~IsMap(item) THEN Raise("AttributeError", "get", item)
  ELSE CommonResult(item, CommonSteps(item.m))

-----------------------------------------------------------------------------
(* utils.py: parse_torrent_list                                            *)

NoResultsName == JStr(<<"No results returned">>)

\* api_response[0].get("name") == "No results returned"
\* a variant that looks for a shortened sentinel name
SentinelNameShortened(l) ==
  Len(l) = 1 /\ IsMap(l[1]) /\ Get(l[1].m, "name", JNull) = JStr(<<"No results">>)

IsNoResultsSentinel(l) ==
  Len(l) = 1 /\ IsMap(l[1]) /\ Get(l[1].m, "name", JNull) = NoResultsName

\* lines 59-62 for the result r of _parse_common_torrent_fields on one
\* element: append the Torrent, or skip on TPBContentError, or let the
\* exception out
TorrentStep(torrents, r) ==
  IF r.ok THEN Ok(Append(torrents, r.v))
  ELSE IF r.exc = "TPBContentError" THEN Ok(torrents)
  ELSE r

\* the for loop of lines 56-62 over the elements from position n on, with the
\* result so far
RECURSIVE TorrentLoop(_, _, _)
TorrentLoop(l, n, acc) ==
  IF n > Len(l) \/ ~acc.ok THEN acc
  ELSE TorrentLoop(l, n + 1, TorrentStep(acc.v, ParseCommonTorrentFields(l[n])))

\* parse_torrent_list(api_response) for a list api_response
ParseTorrentList(l) ==
  IF Len(l) = 0 THEN Ok(<<>>)
  ELSE IF Len(l) = 1 /\ ~IsMap(l[1]) THEN Raise("AttributeError", "get", l[1])
  ELSE IF IsNoResultsSentinel(l) THEN Ok(<<>>)
  ELSE TorrentLoop(l, 1, Ok(<<>>))

-----------------------------------------------------------------------------
(* utils.py: parse_torrent_details                                         *)

NotExistName == JStr(<<"Torrent does not exsist.">>)

\* Python's None, the "not found" result
None == JNull

\* api_response.get(key) if api_response.get(key) else None
LabelOf(v) == IF Truthy(v) THEN v ELSE None

OptionalLabel(data, key) == LabelOf(Get(data, key, JNull))

\* the TorrentDetails of lines 75-99 from the common fields
DetailsRecord(data, common) ==
  [ common |-> common,
    descr |-> Get(data, "descr", JStr(<<>>)),
    language |-> OptionalLabel(data, "language"),
    text_language |-> OptionalLabel(data, "textLanguage") ]

\* lines 100-102: except TPBContentError as e: print(...); return None
DetailsOnContentError(e) == Ok(None)

\* lines 72-104 for the result r of _parse_common_torrent_fields
DetailsResult(data, r) ==
  IF r.ok THEN Ok(DetailsRecord(data, r.v))
  ELSE IF r.exc = "TPBContentError" THEN DetailsOnContentError(r)
  ELSE IF WrapsAsContentError(r.exc)
  THEN Raise("TPBContentError", "details_fields", [cause |-> r, data |-> JMap(data)])
  ELSE r

\* a variant without the sentinel test of lines 69-70
ParseTorrentDetailsSentinelUnchecked(data) ==
  IF Len(data) = 0 THEN Ok(None)
  ELSE DetailsResult(data, ParseCommonTorrentFields(JMap(data)))

\* parse_torrent_details(api_response) for a dict api_response
ParseTorrentDetails(data) ==
  IF Len(data) = 0 THEN Ok(None)
  ELSE IF Get(data, "name", JNull) = NotExistName THEN Ok(None)
  ELSE DetailsResult(data, ParseCommonTorrentFields(JMap(data)))

-----------------------------------------------------------------------------
(* utils.py: parse_file_list                                               *)

FileEntry(name, size) == [name |-> name, size |-> size]

\* a variant that never unwraps
FirstIfListNeverUnwraps(x) == Ok(x)

\* x[0] if isinstance(x, list) else x
FirstIfList(x) ==
  IF IsList(x)
  THEN IF Len(x.l) = 0 THEN Raise("IndexError", "index", x) ELSE Ok(x.l[1])
  ELSE Ok(x)

\* FileEntry(name=..., size=...) from the text of the name and the result of
\* int() on the size
SizedEntry(name, size) == IF size.ok THEN Ok(FileEntry(name, size.v)) ELSE size

\* name = str(n), then size = int(s), where n and s are the results of the
\* expressions that select them
BuildFileEntry(n, s) ==
  IF ~n.ok THEN n
  ELSE IF ~s.ok THEN s
  ELSE SizedEntry(PyStr(n.v), PyInt(s.v))

\* the condition of lines 123-125
IsNameSizeShape(m) ==
  /\ HasKey(m, "name") /\ HasKey(m, "size")
  /\ IsList(Get(m, "name", JNull)) /\ Len(Get(m, "name", JNull).l) > 0
  /\ IsList(Get(m, "size", JNull)) /\ Len(Get(m, "size", JNull).l) > 0

\* lines 126-135
NameSizeEntry(m) ==
  BuildFileEntry(FirstIfList(Get(m, "name", JNull).l[1]),
                 FirstIfList(Get(m, "size", JNull).l[1]))

\* next(iter(item_data.values()), None)
FirstValue(m) == IF Len(m) = 0 THEN None ELSE m[1][2]

\* the conditions of lines 142 and 145 on the first value
IsPairInList(outer) ==
  /\ Truthy(outer) /\ IsList(outer) /\ Len(outer.l) > 0
  /\ IsList(outer.l[1]) /\ Len(outer.l[1].l) = 2

IsIndexShape(m) == IsPairInList(FirstValue(m))

\* lines 144-148
IndexEntry(m) ==
  BuildFileEntry(Ok(FirstValue(m).l[1].l[1]), Ok(FirstValue(m).l[1].l[2]))

\* the conditions of lines 152 and 154
IsPairShape(item) ==
  /\ IsList(item) /\ Len(item.l) = 2
  /\ IsStr(item.l[1])
  /\ (item.l[2].t \in {"int", "bool"} \/ IsDigit(PyStr(item.l[2])))

\* lines 155-157
PairEntry(item) == BuildFileEntry(Ok(item.l[1]), Ok(item.l[2]))

\* an element no branch accepts: line 161 prints a warning and the loop goes on
Unrecognized(item) == Raise("NoMatch", "unrecognized", item)

\* a variant that tries the opaque-index shape before the name/size shape
FileEntryOfIndexFirst(item) ==
  IF IsMap(item)
  THEN IF IsIndexShape(item.m) THEN IndexEntry(item.m)
       ELSE IF IsNameSizeShape(item.m) THEN NameSizeEntry(item.m)
       ELSE Unrecognized(item)
  ELSE IF IsPairShape(item) THEN PairEntry(item)
  ELSE Unrecognized(item)

\* the body of the for loop, lines 120-161, for one element
FileEntryOf(item) ==
  IF IsMap(item)
  THEN IF IsNameSizeShape(item.m) THEN NameSizeEntry(item.m)
       ELSE IF IsIndexShape(item.m) THEN IndexEntry(item.m)
       ELSE Unrecognized(item)
  ELSE IF IsPairShape(item) THEN PairEntry(item)
  ELSE Unrecognized(item)

\* except (IndexError, ValueError, TypeError, StopIteration): continue
FileLoopSkips(exc) ==
  exc \in {"NoMatch", "IndexError", "ValueError", "TypeError", "StopIteration"}

\* one turn of the loop for the result r of the loop body
FileStep(files, r) ==
  IF r.ok THEN Ok(Append(files, r.v))
  ELSE IF FileLoopSkips(r.exc) THEN Ok(files)
  ELSE r

RECURSIVE FileLoop(_, _, _)
FileLoop(l, n, acc) ==
  IF n > Len(l) \/ ~acc.ok THEN acc
  ELSE FileLoop(l, n + 1, FileStep(acc.v, FileEntryOf(l[n])))

\* parse_file_list(api_response) for a list api_response
ParseFileList(l) == IF Len(l) = 0 THEN Ok(<<>>) ELSE FileLoop(l, 1, Ok(<<>>))

-----------------------------------------------------------------------------
(* The transport: what httpx hands back for one request.                   *)
(* A body is its leading whitespace followed by a document: either the     *)
(* JSON text of a value (response.json() decodes it to v) or a text that   *)
(* is no JSON (response.json() raises a ValueError).                       *)

JsonDoc(v) == [kind |-> "json", v |-> v, s |-> <<>>]
TextDoc(s) == [kind |-> "text", v |-> JNull, s |-> s]
Body(lead, doc) == [lead |-> lead, doc |-> doc]

\* the first symbol of the JSON text of v
JsonFirstSymbol(v) ==
  CASE v.t = "list" -> "["
    [] v.t = "map" -> "{"
    [] v.t = "str" -> "quote"
    [] v.t = "null" -> "n"
    [] v.t = "bool" -> IF v.b THEN "t" ELSE "f"
    [] v.t = "int" -> Head(IntText(v.i))
    [] v.t = "float" -> Head(IntText(v.whole))

\* response.text == "false"
TextIsFalse(body) ==
  body.lead = <<>> /\ body.doc.kind = "json" /\ body.doc.v = JBool(FALSE)

\* response.text.strip().startswith(('[', '{'))
StrippedStartsWithBracket(body) ==
  IF body.doc.kind = "json" THEN JsonFirstSymbol(body.doc.v) \in {"[", "{"}
  ELSE LET t == Strip(body.doc.s) IN Len(t) > 0 /\ t[1] \in {"[", "{"}

\* response.json()
ResponseJson(body) ==
  IF body.doc.kind = "json" THEN Ok(body.doc.v)
  ELSE Raise("ValueError", "json", JStr(body.doc.s))

\* endpoint.startswith("/f.php"): an endpoint is a sequence of path symbols
IsFileListEndpoint(endpoint) == endpoint[1] = "/f.php"

EmptyDict == JMap(<<>>)
EmptyList == JList(<<>>)

\* a variant that answers a failed request with an empty payload
TransportErrorSwallowed(r) == Ok(EmptyList)

\* the status and network outcomes of lines 42-43 of async_client.py (36-37
\* of client.py): raise_for_status and httpx.RequestError
TransportError(r) ==
  CASE r.status = "network_error" -> Raise("TPBRequestError", "request_failed", JNull)
    [] r.status = "http_error" -> Raise("TPBRequestError", "http_status", JNull)

\* except ValueError: raise TPBContentError(...), for the result r of
\* response.json()
ContentErrorIfUndecodable(r) ==
  IF r.ok THEN r ELSE Raise("TPBContentError", "decode", r.info)

DecodeOrContentError(body) == ContentErrorIfUndecodable(ResponseJson(body))

\* a variant without the /f.php clause of lines 49-50
AsyncRequestWithoutFileListClause(endpoint, r) ==
  IF r.status # "ok" THEN TransportError(r)
  ELSE IF TextIsFalse(r.body) THEN Ok(EmptyDict)
  ELSE DecodeOrContentError(r.body)

\* a variant that applies the clause of lines 49-50 to every endpoint
AsyncRequestBracketClauseEverywhere(endpoint, r) ==
  IF r.status # "ok" THEN TransportError(r)
  ELSE IF TextIsFalse(r.body) THEN Ok(EmptyDict)
  ELSE IF ~StrippedStartsWithBracket(r.body) THEN Ok(EmptyList)
  ELSE DecodeOrContentError(r.body)

\* AsyncTPBClient._request
AsyncRequest(endpoint, r) ==
  IF r.status # "ok" THEN TransportError(r)
  ELSE IF TextIsFalse(r.body) THEN Ok(EmptyDict)
  ELSE IF IsFileListEndpoint(endpoint) /\ ~StrippedStartsWithBracket(r.body)
  THEN Ok(EmptyList)
  ELSE DecodeOrContentError(r.body)

\* a variant without the "false" clause of lines 39-40
SyncRequestDecodingFalse(endpoint, r) ==
  IF r.status # "ok" THEN TransportError(r)
  ELSE DecodeOrContentError(r.body)

\* TPBClient._request
SyncRequest(endpoint, r) ==
  IF r.status # "ok" THEN TransportError(r)
  ELSE IF TextIsFalse(r.body) THEN Ok(EmptyDict)
  ELSE DecodeOrContentError(r.body)

ClientRequest(client, endpoint, r) ==
  IF client = "async" THEN AsyncRequest(endpoint, r) ELSE SyncRequest(endpoint, r)

-----------------------------------------------------------------------------
(* The endpoint methods, from the value _request returned (req) on.        *)
(* An exception of _request propagates through every one of them.          *)

UnexpectedFormat(op, v) == Raise("TPBContentError", "unexpected_format", v)

\* a variant of search and by_user that does not look at the error key
QueryListOutcomeErrorIgnored(req) ==
  IF ~req.ok THEN req
  ELSE IF ~IsList(req.v)
  THEN IF IsMap(req.v) /\ ~Truthy(req.v) THEN Ok(<<>>)
       ELSE UnexpectedFormat("search", req.v)
  ELSE ParseTorrentList(req.v.l)

\* search and by_user, lines 94-100 and 162-168 of async_client.py,
\* 72-78 and 156-162 of client.py
QueryListOutcome(req) ==
  IF ~req.ok THEN req
  ELSE IF ~IsList(req.v)
  THEN IF IsMap(req.v) /\ Truthy(Get(req.v.m, "error", None))
       THEN Raise("TPBContentError", "api_error", Get(req.v.m, "error", None))
       ELSE IF IsMap(req.v) /\ ~Truthy(req.v) THEN Ok(<<>>)
       ELSE UnexpectedFormat("search", req.v)
  ELSE ParseTorrentList(req.v.l)

\* top100, lines 128-131 of async_client.py, 115-118 of client.py
Top100Outcome(req) ==
  IF ~req.ok THEN req
  ELSE IF ~IsList(req.v) THEN UnexpectedFormat("top100", req.v)
  ELSE ParseTorrentList(req.v.l)

\* details, lines 107-110 of async_client.py, 95-98 of client.py
DetailsOutcome(req) ==
  IF ~req.ok THEN req
  ELSE IF ~IsMap(req.v) THEN UnexpectedFormat("details", req.v)
  ELSE ParseTorrentDetails(req.v.m)

\* file_list, lines 181-187 of async_client.py
FileListOutcome(req) ==
  IF ~req.ok THEN req
  ELSE IF ~IsList(req.v)
  THEN IF req.v = EmptyDict \/ req.v = EmptyList THEN Ok(<<>>)
       ELSE UnexpectedFormat("file_list", req.v)
  ELSE ParseFileList(req.v.l)

\* except (ValueError, TypeError, IndexError): return 0
PageCountDefaults(exc) == exc \in {"ValueError", "TypeError", "IndexError"}

\* lines 205-208 for the result r of int(raw_data[0])
PageCountResult(r) ==
  IF r.ok THEN r
  ELSE IF PageCountDefaults(r.exc) THEN Ok(0)
  ELSE r

\* get_user_page_count, lines 201-208 of async_client.py
PageCountOutcome(req) ==
  IF ~req.ok THEN req
  ELSE IF IsList(req.v) /\ Len(req.v.l) = 1 THEN PageCountResult(PyInt(req.v.l[1]))
  ELSE Ok(0)

-----------------------------------------------------------------------------
(* The payloads the transport may deliver.                                 *)

\* the longest top-level sequence of a payload
MaxListLen == 2

SeqsUpTo(S, n) == UNION {[1..k -> S] : k \in 0..n}

T(s) == JStr(s)

Scalars ==
  { JNull, JBool(TRUE), JBool(FALSE), JInt(0), JInt(5), JFloat(1), JInf,
    T(<<>>), T(<<"a">>), T(<<"1", "5">>) }

\* texts that are no JSON
NonJsonTexts ==
  { <<>>, <<" ">>, <<"<", "html", ">">>, <<"[", "oops">>, <<"{", "oops">> }

\* <<key, value>> pairs of an item mapping of a listing
ItemPairs ==
  { <<"name", NoResultsName>>, <<"name", T(<<"x">>)>>,
    <<"id", T(<<"3">>)>>, <<"id", T(<<"a", "b", "c">>)>>,
    <<"info_hash", T(<<"A", "b", "9">>)>>, <<"info_hash", JNull>>,
    <<"seeders", T(<<"1", "2">>)>>, <<"seeders", T(<<"a", "b", "c">>)>>,
    <<"seeders", JNull>>, <<"seeders", JInf>>, <<"seeders", T(<<"-", "3">>)>> }

\* item mappings: the empty one, one key, and two keys where the order of
\* evaluation of the two fields matters
ItemMaps ==
  {JMap(<<>>)} \cup {JMap(<<p>>) : p \in ItemPairs} \cup
  { JMap(<<p, q>>) : p \in {<<"name", NoResultsName>>, <<"info_hash", JNull>>},
                     q \in {<<"id", T(<<"a", "b", "c">>)>>,
                            <<"seeders", T(<<"a", "b", "c">>)>>} }

\* elements of a listing: item mappings and values that are no mapping
ListElems == ItemMaps \cup {JNull, JInt(5), T(<<"a">>), JList(<<>>)}

TorrentLists == {JList(l) : l \in SeqsUpTo(ListElems, MaxListLen)}

\* mappings a listing endpoint may answer with instead of a sequence
ErrorValues == {T(<<"boom">>), T(<<>>), JNull, JInt(0), JInt(5), JList(<<>>)}
ErrorMaps ==
  {JMap(<< <<"error", e>> >>) : e \in ErrorValues} \cup
  {JMap(<< <<"name", T(<<"x">>)>>, <<"error", e>> >>) : e \in ErrorValues}

\* <<key, value>> pairs of a detail mapping; position in DetailKeys orders them
DetailKeys ==
  << "name", "id", "info_hash", "leechers", "seeders", "num_files", "size",
     "username", "added", "status", "category", "imdb", "descr", "language",
     "textLanguage" >>

KeyIndex(k) == CHOOSE n \in 1..Len(DetailKeys) : DetailKeys[n] = k

NumericTexts == {T(<<"1", "2">>), T(<<"a", "b", "c">>)}

\* values of `added` on both sides of the boundary of line 26 and of the
\* range of datetime: seconds, and the same times in milliseconds
AddedValues ==
  { JInt(-1), JInt(253402301),
    T(<<"2", "5", "3", "4", "0", "2", "3", "0", "1", "0", "0", "0">>),
    JWide(253402, 300799), JWide(253402, 300800),
    JWide(253402300, 799999), JWide(253402300, 800000),
    JWide(-62136, 403200), JWide(-62136, 403199) }

DetailPairs ==
  { <<"name", NotExistName>>, <<"name", T(<<"x">>)>>, <<"name", JNull>>,
    <<"info_hash", T(<<"A", "b", "9">>)>>, <<"info_hash", JNull>>,
    <<"seeders", JNull>>, <<"seeders", JInf>>, <<"seeders", JInt(7)>>,
    <<"seeders", T(<<" ", "7", " ">>)>>, <<"seeders", JList(<<>>)>>,
    <<"username", T(<<>>)>>, <<"username", T(<<"b", "o", "b">>)>>,
    <<"username", JNull>>,
    <<"status", T(<<"vip">>)>>, <<"status", JNull>>,
    <<"imdb", T(<<>>)>>, <<"imdb", T(<<" ">>)>>, <<"imdb", T(<<"tt0111161">>)>>,
    <<"imdb", JNull>>, <<"imdb", JInt(0)>>,
    <<"descr", T(<<"d">>)>>,
    <<"language", T(<<>>)>>, <<"language", T(<<" ">>)>>, <<"language", T(<<"en">>)>>,
    <<"textLanguage", T(<<"en">>)>> } \cup
  { <<k, v>> : k \in {"id", "leechers", "seeders", "num_files", "size", "added",
                      "category"}, v \in NumericTexts } \cup
  {<<"added", v>> : v \in AddedValues}

DetailMaps ==
  {JMap(<<>>)} \cup {JMap(<<p>>) : p \in DetailPairs} \cup
  UNION { {JMap(<<p, q>>) : q \in {x \in DetailPairs : KeyIndex(p[1]) < KeyIndex(x[1])}}
          : p \in DetailPairs }

\* file names and sizes of a file listing, and the ways upstream encodes them
FileNames == {T(<<"a">>), T(<<>>)}
FileSizes == {0, 12}
BadSizes ==
  { T(<<"x">>), T(<<"sup2">>), T(<<"-", "4">>), JInt(-4), JNull, JInf, JFloat(1) }

\* the three shapes of parse_file_list's docstring, and the double-wrapped one
NameSizeShape(n, s) == JMap(<< <<"name", JList(<<n>>)>>, <<"size", JList(<<s>>)>> >>)
DoubleWrappedShape(n, s) == NameSizeShape(JList(<<n>>), JList(<<s>>))
IndexShape(n, s) == JMap(<< <<"0", JList(<<JList(<<n, s>>)>>)>> >>)
PairShape(n, s) == JList(<<n, s>>)

\* every shape with the size as an integer, the bare pair also with the size
\* as a digit-only string
WellFormedFileElems ==
  UNION { { NameSizeShape(n, JInt(k)), DoubleWrappedShape(n, JInt(k)),
            IndexShape(n, JInt(k)), PairShape(n, JInt(k)),
            PairShape(n, T(IntText(k))) } : n \in FileNames, k \in FileSizes } \cup
  { NameSizeShape(T(<<"a">>), T(<<"1", "2">>)) }

BadSizeFileElems ==
  {NameSizeShape(T(<<"a">>), s) : s \in BadSizes} \cup
  {PairShape(T(<<"a">>), s) : s \in {JInt(-4), T(<<"sup2">>), JFloat(1), JInf}} \cup
  {IndexShape(T(<<"a">>), s) : s \in {T(<<"x">>), T(<<"1", "2">>), JInf}}

MalformedFileElems ==
  { JNull, JInt(5), T(<<"x">>), JList(<<>>), JMap(<<>>),
    JList(<<T(<<"a">>)>>), JList(<<T(<<"a">>), JInt(12), JInt(1)>>),
    PairShape(JInt(5), JInt(12)), PairShape(T(<<"a">>), JBool(TRUE)),
    NameSizeShape(JList(<<>>), JInt(12)), NameSizeShape(T(<<"a">>), JList(<<>>)),
    JMap(<< <<"name", JList(<<>>)>>, <<"size", JList(<<JInt(12)>>)>> >>),
    JMap(<< <<"name", T(<<"a">>)>>, <<"size", JInt(12)>> >>),
    NameSizeShape(JList(<<>>), JList(<<>>)),
    JMap(<< <<"0", JList(<<>>)>> >>), JMap(<< <<"0", JNull>> >>),
    JMap(<< <<"0", JList(<<JList(<<T(<<"a">>)>>)>>)>> >>),
    IndexShape(JInt(5), JInt(12)) }

\* mappings that fit more than one shape, or fit the index shape next to
\* name/size keys that do not
MixedFileElems ==
  { JMap(<< <<"0", JList(<<JList(<<T(<<"b">>), JInt(1)>>)>>)>>,
            <<"name", JList(<<T(<<"a">>)>>)>>, <<"size", JList(<<JInt(12)>>)>> >>),
    JMap(<< <<"0", JList(<<JList(<<T(<<"b">>), JInt(1)>>)>>)>>,
            <<"name", JList(<<T(<<"a">>)>>)>>, <<"size", JList(<<>>)>> >>),
    JMap(<< <<"name", JList(<<T(<<"a">>)>>)>>, <<"size", JList(<<>>)>>,
            <<"0", JList(<<JList(<<T(<<"b">>), JInt(1)>>)>>)>> >>) }

FileElems ==
  WellFormedFileElems \cup BadSizeFileElems \cup MalformedFileElems \cup MixedFileElems

FileLists == {JList(l) : l \in SeqsUpTo(FileElems, MaxListLen)}

PageCountElems ==
  { T(<<"1", "5">>), T(<<"a", "b", "c">>), JInt(5), JNull, JInf, JList(<<>>) }

PageCountLists == {JList(l) : l \in SeqsUpTo(PageCountElems, MaxListLen)}

\* values every endpoint may be answered with
CommonValues ==
  Scalars \cup ErrorMaps \cup {EmptyDict, EmptyList, JList(<<JInt(5)>>)}

CommonDocs ==
  {JsonDoc(v) : v \in CommonValues} \cup {TextDoc(s) : s \in NonJsonTexts}

ContainerSize(v) == IF IsList(v) THEN Len(v.l) ELSE Len(v.m)

\* the bodies of successful responses for an endpoint whose payloads are
\* `payloads`; bodies with leading whitespace carry the smaller documents
OkBodies(payloads) ==
  {Body(<<>>, d) : d \in CommonDocs \cup {JsonDoc(v) : v \in payloads}} \cup
  { Body(<<" ">>, d) :
      d \in CommonDocs \cup {JsonDoc(v) : v \in {x \in payloads : ContainerSize(x) <= 1}} }

ErrorBodies ==
  { Body(<<>>, JsonDoc(JBool(FALSE))), Body(<<>>, JsonDoc(EmptyList)),
    Body(<<>>, TextDoc(<<"<", "html", ">">>)) }

Response(status, body) == [status |-> status, body |-> body]

Responses(payloads) ==
  {Response("ok", b) : b \in OkBodies(payloads)} \cup
  {Response("http_error", b) : b \in ErrorBodies} \cup
  {Response("network_error", Body(<<>>, TextDoc(<<>>)))}

ListingResponses == Responses(TorrentLists)
DetailsResponses == Responses(DetailMaps)
FileListResponses == Responses(FileLists)
PageCountResponses == Responses(PageCountLists)

-----------------------------------------------------------------------------
(* The state machine: a client is idle, or one of its endpoint methods has *)
(* run on a transport response and its outcome is with the caller.         *)

\* params=None, and the arguments of no call
NoParams == <<>>
NoArgs == <<>>

NoCall ==
  [client |-> "none", op |-> "none", endpoint |-> <<>>, args |-> NoArgs, params |-> NoParams]
NoResponse == Response("none", Body(<<>>, TextDoc(<<>>)))
Nothing == Ok(None)

QueryEndpoint == <<"/q.php">>
DetailsEndpoint == <<"/t.php">>
FileListEndpoint == <<"/f.php">>

Top100Categories == {"all", "recent"}
Top100Pages == {0, 1}

\* lines 124-126 of async_client.py; page 0 stands for both None and 0
AsyncTop100Endpoint(category, page) ==
  IF category = "recent" /\ page > 0
  THEN <<"/precompiled/data_top100_recent_", IntText(page), ".json">>
  ELSE <<"/precompiled/data_top100_", category, ".json">>

\* line 115 of client.py
SyncTop100Endpoint(category) == <<"/precompiled/data_top100_", category, ".json">>

\* two payloads an endpoint may answer a call with
CallPayloads(op) ==
  CASE op \in {"search", "by_user", "top100"} ->
         { JList(<<JMap(<< <<"id", T(<<"3">>)>> >>)>>), EmptyList }
    [] op = "details" ->
         { JMap(<< <<"id", T(<<"3">>)>> >>), JMap(<< <<"name", NotExistName>> >>) }
    [] op = "file_list" ->
         { JList(<<PairShape(T(<<"a">>), JInt(12))>>), EmptyList }
    [] op = "get_user_page_count" ->
         { JList(<<T(<<"1", "5">>)>>), EmptyList }

CallResponses(op) ==
  {Response("ok", Body(<<>>, JsonDoc(v))) : v \in CallPayloads(op)} \cup
  { Response("http_error", Body(<<>>, JsonDoc(JBool(FALSE)))),
    Response("network_error", Body(<<>>, TextDoc(<<>>))) }

\* the arguments the methods are called with
Queries == {<<"ubuntu">>}
Usernames == {<<"bob">>}
TorrentIds == {1}
CategoryIds == {None, JInt(0), JInt(207)}
SearchPages == {0, 1}
UserPages == {-1, 0, 1}
Periods == {None, JStr(<<>>), JStr(<<"today">>)}

\* a variant that tests category_id for truth
SearchParamsIfTruthy(query, category_id) ==
  IF Truthy(category_id) THEN [q |-> query, cat |-> category_id] ELSE [q |-> query]

\* lines 67-69 of client.py, 79-81 of async_client.py
SearchParams(query, category_id) ==
  IF category_id # None THEN [q |-> query, cat |-> category_id] ELSE [q |-> query]

\* lines 79-91 of async_client.py: the branch on page is `pass`
AsyncSearchParams(query, category_id, page) == SearchParams(query, category_id)

\* ":".join(parts)
RECURSIVE JoinColon(_)
JoinColon(parts) ==
  IF Len(parts) = 0 THEN <<>>
  ELSE IF Len(parts) = 1 THEN parts[1]
  ELSE parts[1] \o <<":">> \o JoinColon(Tail(parts))

\* f"user:{username}"
UserPrefix(username) == <<"user", ":">> \o username

\* lines 149-153 of client.py
SyncByUserQuery(username, page) ==
  IF page > 0 THEN UserPrefix(username) \o <<":">> \o IntText(page)
  ELSE UserPrefix(username)

\* lines 152-158 of async_client.py
AsyncByUserQuery(username, page, period) ==
  JoinColon(<<UserPrefix(username)>>
            \o (IF page >= 0 THEN <<IntText(page)>> ELSE <<>>)
            \o (IF Truthy(period) THEN <<period.s>> ELSE <<>>))

\* line 201 of async_client.py
PageCountQuery(username) == <<"pcnt", ":">> \o username

\* the names of the method calls that may be in progress at once
CallIds == {"c1", "c2"}

\* the frame of a method call that has not begun
NoFrame ==
  [ state |-> "idle", op |-> "none", endpoint |-> <<>>, session |-> 0,
    requests |-> 0, resp |-> NoResponse, raw |-> Nothing, outcome |-> Nothing ]

NoClient == [kind |-> "none", session |-> 0, external_client |-> FALSE, base_url |-> <<>>]

\* no client object is followed
ObjectUnused ==
  /\ sessions = <<>>
  /\ self = NoClient
  /\ lifecycle = "none"
  /\ calls = [c \in CallIds |-> NoFrame]

CallUnused ==
  /\ pc = "idle"
  /\ call = NoCall
  /\ resp = NoResponse
  /\ raw = Nothing
  /\ outcome = Nothing

Init == CallUnused /\ ObjectUnused

\* the method `op` of `client` runs to its end on response r
Run(client, op, endpoint, args, params, r, out) ==
  /\ pc' = "returned"
  /\ call' = [ client |-> client, op |-> op, endpoint |-> endpoint, args |-> args,
               params |-> params ]
  /\ resp' = r
  /\ raw' = ClientRequest(client, endpoint, r)
  /\ outcome' = out
  /\ UNCHANGED <<sessions, self, lifecycle, calls>>

Clients == {"sync", "async"}

\* the blocking search has no page argument; the arguments and the response
\* meet nowhere in the method, so every response is tried with the default
\* arguments and a few responses with the other arguments
Search ==
  /\ pc = "idle"
  /\ \E client \in Clients, query \in Queries, category_id \in CategoryIds,
        page \in SearchPages :
    /\ client = "sync" => page = 0
    /\ \E r \in (IF category_id = None /\ page = 0 THEN ListingResponses
                 ELSE CallResponses("search")) :
      Run(client, "search", QueryEndpoint,
          [query |-> query, category_id |-> category_id, page |-> page],
          IF client = "async" THEN AsyncSearchParams(query, category_id, page)
          ELSE SearchParams(query, category_id),
          r, QueryListOutcome(ClientRequest(client, QueryEndpoint, r)))

\* the blocking by_user has no period argument
ByUser ==
  /\ pc = "idle"
  /\ \E client \in Clients, username \in Usernames, page \in UserPages,
        period \in Periods :
    /\ client = "sync" => period = None
    /\ \E r \in (IF page = 0 /\ period = None THEN ListingResponses
                 ELSE CallResponses("by_user")) :
      Run(client, "by_user", QueryEndpoint,
          [username |-> username, page |-> page, period |-> period],
          [q |-> IF client = "async" THEN AsyncByUserQuery(username, page, period)
                 ELSE SyncByUserQuery(username, page)],
          r, QueryListOutcome(ClientRequest(client, QueryEndpoint, r)))

Top100 ==
  /\ pc = "idle"
  /\ \E client \in Clients, category \in Top100Categories, page \in Top100Pages,
     r \in ListingResponses :
    /\ client = "sync" => page = 0
    /\ LET endpoint == IF client = "async" THEN AsyncTop100Endpoint(category, page)
                       ELSE SyncTop100Endpoint(category)
       IN  Run(client, "top100", endpoint, [category |-> category, page |-> page],
               NoParams, r,
               Top100Outcome(ClientRequest(client, endpoint, r)))

Details ==
  /\ pc = "idle"
  /\ \E client \in Clients, torrent_id \in TorrentIds, r \in DetailsResponses :
    Run(client, "details", DetailsEndpoint, [torrent_id |-> torrent_id],
        [id |-> torrent_id], r,
        DetailsOutcome(ClientRequest(client, DetailsEndpoint, r)))

FileList ==
  /\ pc = "idle"
  /\ \E torrent_id \in TorrentIds, r \in FileListResponses :
    Run("async", "file_list", FileListEndpoint, [torrent_id |-> torrent_id],
        [id |-> torrent_id], r,
        FileListOutcome(AsyncRequest(FileListEndpoint, r)))

GetUserPageCount ==
  /\ pc = "idle"
  /\ \E username \in Usernames, r \in PageCountResponses :
    Run("async", "get_user_page_count", QueryEndpoint, [username |-> username],
        [q |-> PageCountQuery(username)], r,
        PageCountOutcome(AsyncRequest(QueryEndpoint, r)))

\* the caller takes the outcome; the client is ready for the next call
Return ==
  /\ pc = "returned"
  /\ pc' = "idle"
  /\ call' = NoCall
  /\ resp' = NoResponse
  /\ raw' = Nothing
  /\ outcome' = Nothing
  /\ UNCHANGED <<sessions, self, lifecycle, calls>>

Next ==
  \/ Search
  \/ ByUser
  \/ Top100
  \/ Details
  \/ FileList
  \/ GetUserPageCount
  \/ Return

Spec == Init /\ [][Next]_vars

-----------------------------------------------------------------------------
(* The client object over its lifetime: the sessions (httpx clients) it    *)
(* holds, and method calls in progress. A non-blocking call is suspended   *)
(* at the transport boundary, so other calls and lifecycle methods run     *)
(* between its request and its response; a blocking call is not.           *)

callVars == <<pc, call, resp, raw, outcome>>

\* the most sessions followed over one lifetime
MaxSessions == 2

\* url.rstrip('/') on a url given as a sequence of symbols
RECURSIVE RStripSlash(_)
RStripSlash(url) ==
  IF Len(url) > 0 /\ url[Len(url)] = "/"
  THEN RStripSlash(SubSeq(url, 1, Len(url) - 1)) ELSE url

BaseUrls == {<<"https://apibay.org">>, <<"https://mirror", "/">>}

\* an httpx client, open from its construction
Session(owner) == [owner |-> owner, open |-> TRUE]

\* client.close() / await client.aclose()
CloseSession(ss, n) == [ss EXCEPT ![n].open = FALSE]

\* AsyncTPBClient.__init__ with and without a session of the caller's, and
\* TPBClient.__init__
Constructed(kind, external, url) ==
  /\ sessions = <<Session(IF external THEN "caller" ELSE "library")>>
  /\ self = [ kind |-> kind, session |-> 1, external_client |-> external,
              base_url |-> RStripSlash(url) ]
  /\ lifecycle = "constructed"
  /\ calls = [c \in CallIds |-> NoFrame]

LifecycleInit ==
  /\ CallUnused
  /\ \E url \in BaseUrls :
       \/ Constructed("async", TRUE, url)
       \/ Constructed("async", FALSE, url)
       \/ Constructed("sync", FALSE, url)

SyncMethods == {"search", "by_user", "top100", "details"}
AsyncMethods == SyncMethods \cup {"file_list", "get_user_page_count"}
MethodsOf(kind) == IF kind = "sync" THEN SyncMethods ELSE AsyncMethods

EndpointOf(kind, op) ==
  CASE op \in {"search", "by_user", "get_user_page_count"} -> QueryEndpoint
    [] op = "details" -> DetailsEndpoint
    [] op = "file_list" -> FileListEndpoint
    [] op = "top100" -> IF kind = "sync" THEN SyncTop100Endpoint("all")
                        ELSE AsyncTop100Endpoint("all", 0)

\* what the method `op` makes of the result of _request
MethodOutcome(op, req) ==
  CASE op \in {"search", "by_user"} -> QueryListOutcome(req)
    [] op = "top100" -> Top100Outcome(req)
    [] op = "details" -> DetailsOutcome(req)
    [] op = "file_list" -> FileListOutcome(req)
    [] op = "get_user_page_count" -> PageCountOutcome(req)

\* httpx refuses to send on a closed client; no except clause of _request
\* matches the RuntimeError
SessionClosedError(n) == Raise("RuntimeError", "client_closed", JInt(n))

\* the method runs up to self._client.request(...) on the session n
IssueRequest(frame, op, endpoint, n, open) ==
  IF open
  THEN [frame EXCEPT !.state = "awaiting", !.op = op, !.endpoint = endpoint,
                     !.session = n, !.requests = frame.requests + 1]
  ELSE [frame EXCEPT !.state = "done", !.op = op, !.endpoint = endpoint,
                     !.session = n, !.requests = frame.requests + 1,
                     !.raw = SessionClosedError(n),
                     !.outcome = SessionClosedError(n)]

\* a variant that reads the response of whichever call has received one
ResponseOfSomeCall(c) ==
  IF \E d \in CallIds \ {c} : calls[d].resp.status # "none"
  THEN calls[CHOOSE d \in CallIds \ {c} : calls[d].resp.status # "none"].resp
  ELSE calls[c].resp

\* the local variable `response` of the call c
LocalResponse(c) == calls[c].resp

\* the records of the calls that are done, in the order of their names
RecordsKept ==
  (IF calls["c1"].state = "done" /\ calls["c1"].outcome.ok /\ calls["c1"].op = "search"
   THEN calls["c1"].outcome.v ELSE <<>>)
  \o (IF calls["c2"].state = "done" /\ calls["c2"].outcome.ok /\ calls["c2"].op = "search"
      THEN calls["c2"].outcome.v ELSE <<>>)

\* a variant whose parse_torrent_list appends to a list it keeps between calls
FinishedKeepingRecords(frame, req) ==
  [frame EXCEPT !.state = "done", !.raw = req,
     !.outcome = IF frame.op = "search" /\ MethodOutcome(frame.op, req).ok
                 THEN Ok(RecordsKept \o MethodOutcome(frame.op, req).v)
                 ELSE MethodOutcome(frame.op, req)]

\* the rest of the method once _request has produced req
Finished(frame, req) ==
  [frame EXCEPT !.state = "done", !.raw = req, !.outcome = MethodOutcome(frame.op, req)]

\* a blocking call occupies the only thread until it returns
Blocked ==
  self.kind = "sync" /\ \E c \in CallIds : calls[c].state \in {"awaiting", "received"}

BeginCall ==
  /\ ~Blocked
  /\ \E c \in CallIds, op \in MethodsOf(self.kind) :
       /\ calls[c].state = "idle"
       /\ calls' = [calls EXCEPT ![c] =
            IssueRequest(calls[c], op, EndpointOf(self.kind, op), self.session,
                         sessions[self.session].open)]
  /\ UNCHANGED <<sessions, self, lifecycle, callVars>>

\* the transport completes the request of call c
Receive ==
  /\ \E c \in CallIds :
       /\ calls[c].state = "awaiting"
       /\ \E r \in CallResponses(calls[c].op) :
            calls' = [calls EXCEPT ![c].state = "received", ![c].resp = r]
  /\ UNCHANGED <<sessions, self, lifecycle, callVars>>

\* call c resumes with its response and runs to its end
Resume ==
  /\ \E c \in CallIds :
       /\ calls[c].state = "received"
       /\ calls' = [calls EXCEPT ![c] =
            Finished(calls[c],
                     ClientRequest(self.kind, calls[c].endpoint, LocalResponse(c)))]
  /\ UNCHANGED <<sessions, self, lifecycle, callVars>>

\* the caller takes the outcome of call c
TakeResult ==
  /\ \E c \in CallIds :
       /\ calls[c].state = "done"
       /\ calls' = [calls EXCEPT ![c] = NoFrame]
  /\ UNCHANGED <<sessions, self, lifecycle, callVars>>

Replaced(cl, ss, url) ==
  [ self |-> [cl EXCEPT !.base_url = RStripSlash(url), !.session = Len(ss) + 1],
    sessions |-> Append(ss, Session("library")) ]

\* AsyncTPBClient.set_base_url: the client and the sessions after it
AsyncSetBaseUrl(cl, ss, url) ==
  IF cl.external_client
  THEN [self |-> [cl EXCEPT !.base_url = RStripSlash(url)], sessions |-> ss]
  ELSE Replaced(cl, ss, url)

\* a variant without the close() of line 174
SyncSetBaseUrlLeavingOld(cl, ss, url) == Replaced(cl, ss, url)

\* TPBClient.set_base_url
SyncSetBaseUrl(cl, ss, url) == Replaced(cl, CloseSession(ss, cl.session), url)

\* a variant of AsyncTPBClient.close that closes whoever supplied the session
AsyncCloseWhoeverOwns(cl, ss) == CloseSession(ss, cl.session)

\* AsyncTPBClient.close: the sessions after it
AsyncClose(cl, ss) ==
  IF ~cl.external_client THEN CloseSession(ss, cl.session) ELSE ss

\* TPBClient.close
SyncClose(cl, ss) == CloseSession(ss, cl.session)

Installed(after, op) ==
  /\ self' = after.self
  /\ sessions' = after.sessions
  /\ lifecycle' = op
  /\ UNCHANGED <<calls, callVars>>

SetBaseUrl ==
  /\ ~Blocked
  /\ Len(sessions) < MaxSessions
  /\ \E url \in BaseUrls :
       Installed(IF self.kind = "async" THEN AsyncSetBaseUrl(self, sessions, url)
                 ELSE SyncSetBaseUrl(self, sessions, url), "set_base_url")

Closing(op) ==
  /\ sessions' = IF self.kind = "async" THEN AsyncClose(self, sessions)
                 ELSE SyncClose(self, sessions)
  /\ lifecycle' = op
  /\ UNCHANGED <<self, calls, callVars>>

Close ==
  /\ ~Blocked
  /\ Closing("close")

\* __aexit__ / __exit__, on a normal exit and on an exception alike
ContextExit ==
  /\ ~Blocked
  /\ Closing("exit")

LifecycleNext ==
  \/ BeginCall
  \/ Receive
  \/ Resume
  \/ TakeResult
  \/ SetBaseUrl
  \/ Close
  \/ ContextExit

LifecycleSpec == LifecycleInit /\ [][LifecycleNext]_vars

-----------------------------------------------------------------------------
(* Vocabulary of the properties.                                           *)

Returned(op) == pc = "returned" /\ call.op = op
ReturnedListing == pc = "returned" /\ call.op \in {"search", "by_user", "top100"}

IsContentError(o) == ~o.ok /\ o.exc = "TPBContentError"
IsRequestError(o) == ~o.ok /\ o.exc = "TPBRequestError"

\* _request handed a decoded value on
Decoded == raw.ok
DecodedList == raw.ok /\ IsList(raw.v)
DecodedMap == raw.ok /\ IsMap(raw.v)

NamedAs(item, name) == IsMap(item) /\ HasKey(item.m, "name") /\ Get(item.m, "name", JNull) = name

-----------------------------------------------------------------------------
\* C1: details() on a non-empty mapping that is not the "does not exsist"
\* sentinel and in which a common field fails coercion (section 4.1 classes
\* it a content error) ends in a content error; it never returns "not found".
C1_DetailsCoercionFailureIsContentError ==
  ( /\ Returned("details")
    /\ DecodedMap
    /\ Len(raw.v.m) > 0
    /\ ~NamedAs(raw.v, NotExistName)
    /\ IsContentError(ParseCommonTorrentFields(raw.v)) )
  => IsContentError(outcome)

\* C2: every call ends in a result, a request error or a content error; no
\* other kind of failure reaches the caller.
C2_OnlyResultOrClassifiedError ==
  pc = "returned" => (outcome.ok \/ IsRequestError(outcome) \/ IsContentError(outcome))

\* the records of the elements of l that coerce, in the order of l
RECURSIVE CoercibleRecords(_)
CoercibleRecords(l) ==
  IF Len(l) = 0 THEN <<>>
  ELSE (IF ParseCommonTorrentFields(Head(l)).ok
        THEN <<ParseCommonTorrentFields(Head(l)).v>> ELSE <<>>)
       \o CoercibleRecords(Tail(l))

IsSentinelList(l) == Len(l) = 1 /\ NamedAs(l[1], NoResultsName)

\* C3: a listing whose body is a sequence other than the "No results
\* returned" sentinel yields exactly the records of the elements that
\* coerce, in input order; an element that fails coercion is dropped and
\* never aborts the list.
C3_ListKeepsExactlyCoercibleItems ==
  (ReturnedListing /\ DecodedList /\ ~IsSentinelList(raw.v.l))
  => outcome = Ok(CoercibleRecords(raw.v.l))

\* C4: a listing whose body is an empty sequence, or a single element named
\* exactly "No results returned", yields an empty sequence and no error.
C4_EmptyAndSentinelListsYieldEmpty ==
  (ReturnedListing /\ DecodedList /\ (Len(raw.v.l) = 0 \/ IsSentinelList(raw.v.l)))
  => outcome = Ok(<<>>)

\* the sentinel element carries a field that would not coerce, and the
\* listing is empty all the same
C4_Witness ==
  /\ Returned("search")
  /\ raw = Ok(JList(<<JMap(<< <<"name", NoResultsName>>,
                             <<"seeders", T(<<"a", "b", "c">>)>> >>)>>))
  /\ outcome = Ok(<<>>)

\* C5: details() on an empty mapping, or on a mapping named exactly
\* "Torrent does not exsist." whatever its other keys hold, returns "not
\* found" and no error.
C5_EmptyAndSentinelDetailsAreNotFound ==
  (Returned("details") /\ DecodedMap
     /\ (Len(raw.v.m) = 0 \/ NamedAs(raw.v, NotExistName)))
  => outcome = Ok(None)

\* the sentinel mapping also holds a null info_hash, which no record accepts
C5_Witness ==
  /\ Returned("details")
  /\ raw = Ok(JMap(<< <<"name", NotExistName>>, <<"info_hash", JNull>> >>))
  /\ outcome = Ok(None)

\* C6: top100/recent answered with an empty mapping (the transport's
\* translation of the text false) yields an empty sequence, as search and
\* by_user do, not a content error.
C6_Top100EmptyMappingYieldsEmpty ==
  (Returned("top100") /\ raw = Ok(EmptyDict)) => outcome = Ok(<<>>)

\* what Python counts as a non-empty value
NonEmptyValue(v) ==
  CASE v.t = "null" -> FALSE
    [] v.t = "bool" -> v.b
    [] v.t = "int" -> v.i # 0
    [] v.t = "float" -> TRUE
    [] v.t = "str" -> v.s # <<>>
    [] v.t = "list" -> v.l # <<>>
    [] v.t = "map" -> v.m # <<>>

HasNonEmptyError(v) ==
  IsMap(v) /\ \E n \in 1..Len(v.m) : v.m[n][1] = "error" /\ NonEmptyValue(v.m[n][2])

ErrorOf(v) == v.m[CHOOSE n \in 1..Len(v.m) : v.m[n][1] = "error"][2]

\* C7: search and by_user on a body that is no sequence: a mapping with a
\* non-empty error fails with a content error carrying that error, an empty
\* mapping yields an empty sequence, anything else fails with a content error.
C7_NonSequenceBodyClassification ==
  ((Returned("search") \/ Returned("by_user")) /\ Decoded /\ ~IsList(raw.v))
  => IF HasNonEmptyError(raw.v)
     THEN IsContentError(outcome) /\ outcome.why = "api_error"
          /\ outcome.info = ErrorOf(raw.v)
     ELSE IF raw.v = EmptyDict THEN outcome = Ok(<<>>)
     ELSE IsContentError(outcome) /\ outcome.why = "unexpected_format"

\* by_user of the blocking client on a mapping with an error next to
\* another key
C7_Witness ==
  /\ Returned("by_user") /\ call.client = "sync"
  /\ raw = Ok(JMap(<< <<"name", T(<<"x">>)>>, <<"error", T(<<"boom">>)>> >>))
  /\ IsContentError(outcome) /\ outcome.info = T(<<"boom">>)

\* the encodings of one file of name n and size k
EncodingsOf(n, k) ==
  { NameSizeShape(n, JInt(k)), DoubleWrappedShape(n, JInt(k)), IndexShape(n, JInt(k)),
    PairShape(n, JInt(k)), PairShape(n, T(IntText(k))) }

\* C8: the name/size shape, its double-wrapped variant, the opaque-index
\* shape and the bare pair (size as integer or digit-only string) of the
\* same file name and non-negative size normalize to the same single record.
C8_FileShapesAgree ==
  \A n \in FileNames, k \in FileSizes :
    (Returned("file_list") /\ DecodedList /\ Len(raw.v.l) = 1
       /\ raw.v.l[1] \in EncodingsOf(n, k))
    => outcome = Ok(<<FileEntry(n.s, k)>>)

C8_Witness ==
  /\ Returned("file_list")
  /\ raw = Ok(JList(<<DoubleWrappedShape(T(<<"a">>), JInt(12))>>))
  /\ outcome = Ok(<<FileEntry(<<"a">>, 12)>>)

\* the records of the elements of l that one of the shapes accepts
RECURSIVE RecognizedFiles(_)
RecognizedFiles(l) ==
  IF Len(l) = 0 THEN <<>>
  ELSE (IF FileEntryOf(Head(l)).ok THEN <<FileEntryOf(Head(l)).v>> ELSE <<>>)
       \o RecognizedFiles(Tail(l))

\* C9: file_list on any sequence returns, without error, exactly the records
\* of its recognizable elements in input order; a malformed element is
\* skipped and never makes the call fail.
C9_FileListNeverFails ==
  (Returned("file_list") /\ DecodedList)
  => outcome = Ok(RecognizedFiles(raw.v.l))

\* the text of a successful body, as far as the properties read it
TextIsEmpty(body) == body.lead = <<>> /\ body.doc.kind = "text" /\ body.doc.s = <<>>

TextFirstSymbol(body) ==
  IF body.lead # <<>> THEN Head(body.lead)
  ELSE IF body.doc.kind = "json" THEN JsonFirstSymbol(body.doc.v)
  ELSE IF body.doc.s = <<>> THEN "" ELSE Head(body.doc.s)

BeginsWithBracket(body) == TextFirstSymbol(body) \in {"[", "{"}

StrippedText(body) ==
  IF body.doc.kind = "json" THEN <<JsonFirstSymbol(body.doc.v)>> ELSE Strip(body.doc.s)

BeginsWithBracketOnceStripped(body) ==
  StrippedText(body) # <<>> /\ Head(StrippedText(body)) \in {"[", "{"}

DecodesTo(body, v) == body.doc.kind = "json" /\ body.doc.v = v

DecodesToNonEmptyNonSequence(body) ==
  body.doc.kind = "json" /\ ~IsList(body.doc.v) /\ NonEmptyValue(body.doc.v)

FileListAnswered == Returned("file_list") /\ resp.status = "ok"

\* C10 as stated: a successful file_list body that is empty, is the text
\* false, does not begin with [ or {, or decodes to an empty sequence or
\* mapping yields an empty listing; otherwise one that decodes to a
\* non-empty value that is no sequence yields a content error.
C10_FileListBodiesAsStated ==
  FileListAnswered =>
    IF \/ TextIsEmpty(resp.body) \/ TextIsFalse(resp.body)
       \/ ~BeginsWithBracket(resp.body)
       \/ DecodesTo(resp.body, EmptyList) \/ DecodesTo(resp.body, EmptyDict)
    THEN outcome = Ok(<<>>)
    ELSE DecodesToNonEmptyNonSequence(resp.body) => IsContentError(outcome)

\* C10 amended: a successful file_list body that is the text false, or that
\* once stripped of surrounding whitespace is empty or does not begin with
\* [ or {, or that decodes to an empty sequence or mapping, yields an empty
\* listing; otherwise one that decodes to a non-empty value that is no
\* sequence yields a content error.
C10_FileListBodies ==
  FileListAnswered =>
    IF \/ TextIsFalse(resp.body)
       \/ ~BeginsWithBracketOnceStripped(resp.body)
       \/ DecodesTo(resp.body, EmptyList) \/ DecodesTo(resp.body, EmptyDict)
    THEN outcome = Ok(<<>>)
    ELSE DecodesToNonEmptyNonSequence(resp.body) => IsContentError(outcome)

\* a body of whitespace followed by a scalar yields the empty listing
C10_Witness ==
  /\ FileListAnswered
  /\ resp.body = Body(<<" ">>, JsonDoc(JInt(5)))
  /\ outcome = Ok(<<>>)

-----------------------------------------------------------------------------
IsEncodedInteger(v) == IsStr(v) /\ ParseInt(v.s).ok

IsNumber(v) == v.t \in {"int", "float", "bool"}

\* C11: get_user_page_count never raises on a decoded body: a single
\* element that is a string-encoded integer gives its value; a sole element
\* that is null, no number and no numeric string, and every body that is not
\* a single-element sequence, give 0.
C11_PageCountValueOrZero ==
  (Returned("get_user_page_count") /\ Decoded)
  => /\ outcome.ok
     /\ IF IsList(raw.v) /\ Len(raw.v.l) = 1
        THEN /\ IsEncodedInteger(raw.v.l[1]) => outcome = Ok(ParseInt(raw.v.l[1].s).v)
             /\ (~IsEncodedInteger(raw.v.l[1]) /\ ~IsNumber(raw.v.l[1])) => outcome = Ok(0)
        ELSE outcome = Ok(0)

-----------------------------------------------------------------------------
Begun(c) == calls[c].state # "idle"
Done(c) == calls[c].state = "done"

SuppliedByCaller == self.kind = "async" /\ sessions[1].owner = "caller"

\* C12: a session the caller supplied to AsyncTPBClient is never closed or
\* replaced: whatever requests, set_base_url, close and context exits have
\* run, it is open, it is the client's session, and every request went to it.
C12_SuppliedSessionStaysOpenAndInUse ==
  SuppliedByCaller
  => /\ sessions[1].open
     /\ self.session = 1
     /\ \A c \in CallIds : Begun(c) => calls[c].session = 1

\* after set_base_url to the mirror and a context exit, a request on the
\* supplied session has been answered
C12_Witness ==
  /\ SuppliedByCaller
  /\ self.base_url = <<"https://mirror">>
  /\ lifecycle = "exit"
  /\ \E c \in CallIds : Done(c) /\ calls[c].outcome.ok /\ calls[c].session = 1

\* C13: once an AsyncTPBClient built without a session of the caller's has
\* been closed (close or context exit), after any number of set_base_url
\* calls, no session the library created is open.
C13_ClosedClientLeavesNoSessionOpen ==
  ( /\ self.kind = "async"
    /\ ~self.external_client
    /\ lifecycle \in {"close", "exit"} )
  => \A n \in 1..Len(sessions) : sessions[n].owner = "library" => ~sessions[n].open

TransportFailed(c) == calls[c].resp.status \in {"http_error", "network_error"}

\* C14: a call issues exactly one transport request; when that request ends
\* in a non-2xx status or a network failure the call ends in a request
\* error, _request hands nothing on to the normalizer, and the request is
\* not issued again.
C14_OneRequestAndFailureIsRequestError ==
  \A c \in CallIds :
    Begun(c)
    => /\ calls[c].requests = 1
       /\ (Done(c) /\ TransportFailed(c))
          => IsRequestError(calls[c].raw) /\ IsRequestError(calls[c].outcome)

\* a non-2xx response whose body is the text false, which a 2xx response
\* would have turned into an empty result
C14_Witness ==
  \E c \in CallIds :
    /\ Done(c)
    /\ calls[c].op = "search"
    /\ calls[c].resp = Response("http_error", Body(<<>>, JsonDoc(JBool(FALSE))))
    /\ calls[c].requests = 1
    /\ IsRequestError(calls[c].outcome)

Answered(c) == Done(c) /\ calls[c].resp.status # "none"

\* C15: with several calls in progress on one AsyncTPBClient and their
\* responses arriving in any order, the outcome of each call is the
\* normalization of its own response.
C15_OutcomeIsNormalizationOfOwnResponse ==
  self.kind = "async"
  => \A c \in CallIds :
       Answered(c)
       => calls[c].outcome =
            MethodOutcome(calls[c].op, AsyncRequest(calls[c].endpoint, calls[c].resp))

\* two searches in progress together, answered differently
C15_Witness ==
  /\ self.kind = "async"
  /\ Answered("c1") /\ Answered("c2")
  /\ calls["c1"].op = "search" /\ calls["c2"].op = "search"
  /\ calls["c1"].resp # calls["c2"].resp
  /\ calls["c1"].outcome.ok /\ calls["c2"].outcome.ok
  /\ calls["c1"].outcome # calls["c2"].outcome

-----------------------------------------------------------------------------
Without(m, k) == SelectSeq(m, LAMBDA p : p[1] # k)

IsIntegerOrIntegerText(v) ==
  v.t \in {"int", "wide"} \/ (IsStr(v) /\ PyWideInt(v).ok)

\* the mapping m but for `added` would give a record
OthersCoerce(m) == ParseCommonTorrentFields(JMap(Without(m, "added"))).ok

\* details() has run on a mapping, not the sentinel, whose `added` is an
\* integer or an integer string and whose other fields coerce
DetailsWithIntegerAdded ==
  /\ Returned("details")
  /\ DecodedMap
  /\ ~NamedAs(raw.v, NotExistName)
  /\ HasKey(raw.v.m, "added")
  /\ IsIntegerOrIntegerText(Get(raw.v.m, "added", JNull))
  /\ OthersCoerce(raw.v.m)

ProducesTime(ts) == outcome.ok /\ outcome.v # None /\ outcome.v.common.added = ts

\* the time the same mapping gives when its `added` is the integer s
TimeWithAdded(m, s) ==
  ParseCommonTorrentFields(
    JMap(Append(Without(m, "added"), <<"added", JWide(s.hi, s.lo)>>)))

ProducesTimeOf(r) == r.ok /\ ProducesTime(r.v.added)

IsThousandfold(t) == t.lo % 1000 = 0

\* the claim as stated, for `added` = t
TimestampAsStated(m, t) ==
  /\ IF WideLess(MaxValidTs, t) THEN ProducesTime(WideFloorDiv1000(t))
     ELSE ProducesTime(t)
  /\ (WideLess(MaxValidTs, t) /\ IsThousandfold(t))
     => ProducesTimeOf(TimeWithAdded(m, WideFloorDiv1000(t)))

\* C16 as stated: `added` = t gives the time t seconds after the epoch for
\* t <= 253402300799 and t // 1000 seconds for every larger t; hence for
\* every s with s * 1000 > 253402300799, `added` = s and `added` = s * 1000
\* give the same time.
C16_TimestampCoercionAsStated ==
  DetailsWithIntegerAdded
  => TimestampAsStated(raw.v.m, PyWideInt(Get(raw.v.m, "added", JNull)).v)

WithinCalendar(t) == ~WideLess(t, MinCalendarTs) /\ ~WideLess(MaxCalendarTs, t)

TimestampWithinCalendar(m, t) ==
  /\ (WithinCalendar(t) /\ ~WideLess(MaxValidTs, t)) => ProducesTime(t)
  /\ (WideLess(MaxValidTs, t) /\ WithinCalendar(WideFloorDiv1000(t)))
     => ProducesTime(WideFloorDiv1000(t))
  /\ (WideLess(MaxValidTs, t) /\ IsThousandfold(t)
        /\ WithinCalendar(WideFloorDiv1000(t)))
     => ProducesTimeOf(TimeWithAdded(m, WideFloorDiv1000(t)))

\* C16 amended: `added` = t gives the time t seconds after the epoch for
\* -62135596800 <= t <= 253402300799 and t // 1000 seconds for
\* 253402300799 < t <= 253402300799999; hence for every s <= 253402300799
\* with s * 1000 > 253402300799, `added` = s and `added` = s * 1000 give
\* the same time.
C16_TimestampCoercion ==
  DetailsWithIntegerAdded
  => TimestampWithinCalendar(raw.v.m, PyWideInt(Get(raw.v.m, "added", JNull)).v)

\* 253402301 seconds given as the string "253402301000" of milliseconds
C16_Witness ==
  /\ DetailsWithIntegerAdded
  /\ Get(raw.v.m, "added", JNull) =
       T(<<"2", "5", "3", "4", "0", "2", "3", "0", "1", "0", "0", "0">>)
  /\ ProducesTime(Wide(253402301))

-----------------------------------------------------------------------------
NumericKeys == {"id", "leechers", "seeders", "num_files", "size", "category"}

\* int() rejects the value: it is no number and no numeric text
NonCoercible(v) == ~PyInt(v).ok /\ PyInt(v).exc \in {"ValueError", "TypeError"}

OffendingKeys(m) == {k \in NumericKeys : HasKey(m, k) /\ NonCoercible(Get(m, k, JNull))}

\* the error names k as the key that failed
NamesKey(err, k) == "key" \in DOMAIN err.info /\ err.info.key = k

ProducesRecord == outcome.ok /\ outcome.v # None

\* C17: a value int() rejects under one of id, leechers, seeders, num_files,
\* size, category fails the item with a content error that names the
\* offending key and carries the raw payload, and no record is produced.
C17_NonCoercibleFieldNamesItsKey ==
  (Returned("details") /\ DecodedMap /\ OffendingKeys(raw.v.m) # {})
  => /\ IsContentError(ParseCommonTorrentFields(raw.v))
     /\ \E k \in OffendingKeys(raw.v.m) : NamesKey(ParseCommonTorrentFields(raw.v), k)
     /\ ParseCommonTorrentFields(raw.v).info.data = raw.v
     /\ ~ProducesRecord

NumericFieldsCoerce(m) ==
  /\ \A k \in NumericKeys : PyInt(Get(m, k, JInt(0))).ok
  /\ AddedField(AddedTs(m)).ok

AbsentOrNull(m, k) == ~HasKey(m, k) \/ Get(m, k, JNull) = JNull

\* the record's field is a string, and the default when the key is absent
\* or null
TextFieldDefaults(m, k, value, dflt) ==
  IsStr(value) /\ (AbsentOrNull(m, k) => value = dflt)

\* details() has run on a mapping that is neither empty nor the sentinel
DetailsOnItem ==
  Returned("details") /\ DecodedMap /\ Len(raw.v.m) > 0
    /\ ~NamedAs(raw.v, NotExistName)

\* C18: an item whose numeric fields coerce gives a record, raising
\* nothing, in which name, status, info_hash and username are strings,
\* absent or null ones being "", "", "" and "Anonymous", info_hash is
\* lower-cased, and absent numeric fields are 0.
C18_EveryFieldHasTypedValue ==
  (DetailsOnItem /\ NumericFieldsCoerce(raw.v.m))
  => /\ ProducesRecord
     /\ TextFieldDefaults(raw.v.m, "name", outcome.v.common.name, JStr(<<>>))
     /\ TextFieldDefaults(raw.v.m, "status", outcome.v.common.status, JStr(<<>>))
     /\ TextFieldDefaults(raw.v.m, "info_hash", outcome.v.common.info_hash, JStr(<<>>))
     /\ TextFieldDefaults(raw.v.m, "username", outcome.v.common.username,
                          JStr(<<"Anonymous">>))
     /\ outcome.v.common.info_hash.s = Lower(outcome.v.common.info_hash.s)
     /\ \A k \in NumericKeys : ~HasKey(raw.v.m, k) => outcome.v.common[k] = 0

\* C19: in a produced record the uploader name is "Anonymous" when the key
\* `username` is missing or holds the empty string, and the raw value
\* otherwise.
C19_UsernameMissingOrEmptyIsAnonymous ==
  (DetailsOnItem /\ ProducesRecord)
  => outcome.v.common.username =
       IF ~HasKey(raw.v.m, "username") \/ Get(raw.v.m, "username", JNull) = JStr(<<>>)
       THEN JStr(<<"Anonymous">>)
       ELSE Get(raw.v.m, "username", JNull)

IsBlankText(v) == IsStr(v) /\ Strip(v.s) = <<>>

\* C20: in a produced record imdb is absent when the key is missing or
\* holds null, the empty string or a whitespace-only string, and the raw
\* value otherwise; it is never the empty string.
C20_ImdbAbsentOrRawValue ==
  (DetailsOnItem /\ ProducesRecord)
  => /\ outcome.v.common.imdb =
          IF AbsentOrNull(raw.v.m, "imdb") \/ IsBlankText(Get(raw.v.m, "imdb", JNull))
          THEN None
          ELSE Get(raw.v.m, "imdb", JNull)
     /\ outcome.v.common.imdb # JStr(<<>>)

\* a value Python's truth test rejects: null, false, 0, "", [] or {}
IsFalsy(v) == ~Truthy(v)

\* C20 (amended): in a produced record imdb is absent when the key is
\* missing or holds a falsy value (null, false, 0, the empty string, an
\* empty sequence or mapping) or a whitespace-only string, and the raw
\* value otherwise; it is never the empty string.
C20_ImdbAbsentOrTruthyRawValue ==
  (DetailsOnItem /\ ProducesRecord)
  => /\ outcome.v.common.imdb =
          IF ~HasKey(raw.v.m, "imdb") \/ IsFalsy(Get(raw.v.m, "imdb", JNull))
               \/ IsBlankText(Get(raw.v.m, "imdb", JNull))
          THEN None
          ELSE Get(raw.v.m, "imdb", JNull)
     /\ outcome.v.common.imdb # JStr(<<>>)

\* a record was produced from a payload whose imdb is a blank, non-empty
\* string, and its imdb is absent
C20_Witness ==
  /\ DetailsOnItem /\ ProducesRecord
  /\ HasKey(raw.v.m, "imdb")
  /\ IsBlankText(Get(raw.v.m, "imdb", JNull))
  /\ Get(raw.v.m, "imdb", JNull) # JStr(<<>>)
  /\ outcome.v.common.imdb = None

-----------------------------------------------------------------------------
\* the raw value under key is missing, empty, or blank once trimmed
MissingEmptyOrBlank(m, key) ==
  ~HasKey(m, key) \/ IsFalsy(Get(m, key, JNull)) \/ IsBlankText(Get(m, key, JNull))

LabelFollowsImdbRule(m, key, label) ==
  label = IF MissingEmptyOrBlank(m, key) THEN None ELSE Get(m, key, JNull)

\* C21: in a produced details record, language and text_language are absent
\* when the raw `language` / `textLanguage` is missing, empty or
\* whitespace-only after trimming and hold the raw value otherwise, and
\* descr is the empty string when `descr` is missing.
C21_LabelsAbsentWhenBlank ==
  (DetailsOnItem /\ ProducesRecord)
  => /\ LabelFollowsImdbRule(raw.v.m, "language", outcome.v.language)
     /\ LabelFollowsImdbRule(raw.v.m, "textLanguage", outcome.v.text_language)
     /\ (~HasKey(raw.v.m, "descr") => outcome.v.descr = JStr(<<>>))

-----------------------------------------------------------------------------
\* a method has run on a response whose text is exactly `false`
ReturnedOnFalseText == pc = "returned" /\ TextIsFalse(resp.body)

\* C22: in both clients and for every endpoint, _request hands a 2xx
\* response whose text is exactly `false` on as the empty mapping, not as
\* the decoded JSON false and without raising; a non-2xx response with the
\* body `false` is a request error.
C22_FalseTextIsEmptyMapping ==
  ReturnedOnFalseText
  => /\ (resp.status = "ok" => raw = Ok(EmptyDict))
     /\ (resp.status = "http_error" => IsRequestError(raw) /\ IsRequestError(outcome))

\* the blocking client's details() received 200 `false` and _request handed
\* the empty mapping on
C22_Witness ==
  /\ ReturnedOnFalseText /\ resp.status = "ok"
  /\ call.client = "sync" /\ call.op = "details"
  /\ raw = Ok(EmptyDict)

-----------------------------------------------------------------------------
\* C23: search sends a `cat` parameter exactly when a category_id was given:
\* the parameters are {q} when category_id is None and {q, cat = c} when it
\* is c, whatever the non-blocking client's page argument is.
C23_CatParameterIffCategoryGiven ==
  Returned("search")
  => call.params =
       IF call.args.category_id = None
       THEN [q |-> call.args.query]
       ELSE [q |-> call.args.query, cat |-> call.args.category_id]

\* the non-blocking search ran with category 0 and page 1 and sent
\* exactly q and cat = 0
C23_Witness ==
  /\ Returned("search") /\ call.client = "async"
  /\ call.args.category_id = JInt(0) /\ call.args.page = 1
  /\ DOMAIN call.params = {"q", "cat"}
  /\ call.params.cat = JInt(0)

\* the segments of a text between its colons
RECURSIVE SplitColon(_, _)
SplitColon(s, seg) ==
  IF Len(s) = 0 THEN <<seg>>
  ELSE IF Head(s) = ":" THEN <<seg>> \o SplitColon(Tail(s), <<>>)
  ELSE SplitColon(Tail(s), seg \o <<Head(s)>>)

QuerySegments == SplitColon(call.params.q, <<>>)

PeriodGiven == Truthy(call.args.period)

\* C24: the by_user query is `user:<name>`, then an optional page segment,
\* then an optional period segment: the segment in the page position is a
\* page number, and a given period is the segment after it.
C24_PeriodOnlyAfterPage ==
  Returned("by_user")
  => /\ Len(QuerySegments) \in 2..4
     /\ QuerySegments[1] = <<"user">>
     /\ QuerySegments[2] = call.args.username
     /\ Len(QuerySegments) >= 3 => QuerySegments[3] = IntText(call.args.page)
     /\ Len(QuerySegments) = 4 => QuerySegments[4] = call.args.period.s
     /\ PeriodGiven => Len(QuerySegments) = 4

-----------------------------------------------------------------------------
CountFields == {"leechers", "seeders", "num_files", "size"}

NonNegativeCounts(record) == \A k \in CountFields : record[k] >= 0

\* C25: every record handed to the caller has non-negative leechers,
\* seeders, num_files and size (Torrent, TorrentDetails) or size (FileEntry).
C25_CountsAndSizesNonNegative ==
  /\ (ReturnedListing /\ outcome.ok)
       => \A n \in 1..Len(outcome.v) : NonNegativeCounts(outcome.v[n])
  /\ (Returned("details") /\ ProducesRecord) => NonNegativeCounts(outcome.v.common)
  /\ (Returned("file_list") /\ outcome.ok)
       => \A n \in 1..Len(outcome.v) : outcome.v[n].size >= 0

-----------------------------------------------------------------------------
\* what the loop makes of one element: a record, nothing, or a failure
Resolution(r) == IF r.ok THEN r ELSE [ok |-> FALSE, exc |-> r.exc]

\* the element reduced to its `name` and `size`
NameSizeOnly(m) ==
  JMap(<< <<"name", Get(m, "name", JNull)>>, <<"size", Get(m, "size", JNull)>> >>)

\* the element reduced to its first key and value
FirstPairOnly(m) == JMap(<<m[1]>>)

FitsNameSize(e) == IsMap(e) /\ IsNameSizeShape(e.m)

\* the first value is a non-empty sequence that begins with a pair
FitsOpaqueIndex(e) == IsMap(e) /\ IsIndexShape(e.m)

ShapePriorityHolds(e) ==
  /\ FitsNameSize(e)
       => Resolution(FileEntryOf(e)) = Resolution(FileEntryOf(NameSizeOnly(e.m)))
  /\ (IsMap(e) /\ Len(e.m) > 0 /\ ~FitsNameSize(e))
       => Resolution(FileEntryOf(e)) = Resolution(FileEntryOf(FirstPairOnly(e.m)))
  /\ (IsMap(e) /\ ~FitsNameSize(e) /\ ~FitsOpaqueIndex(e)) => ~FileEntryOf(e).ok

\* C26: a mapping element with non-empty list-valued name and size is
\* resolved from its name and size alone, also when its first value fits
\* the opaque-index shape; any other mapping is resolved from its first
\* value alone, never as a bare pair; and an element gives at most one
\* record.
C26_ShapePriority ==
  (Returned("file_list") /\ DecodedList)
  => /\ \A n \in 1..Len(raw.v.l) : ShapePriorityHolds(raw.v.l[n])
     /\ outcome.ok => Len(outcome.v) <= Len(raw.v.l)

\* file_list returned one record, taken from the name and size of an
\* element whose first value fits the opaque-index shape
C26_Witness ==
  /\ Returned("file_list") /\ DecodedList /\ outcome.ok
  /\ Len(raw.v.l) = 1 /\ Len(outcome.v) = 1
  /\ FitsNameSize(raw.v.l[1]) /\ FitsOpaqueIndex(raw.v.l[1])
  /\ outcome.v[1] = FileEntryOf(NameSizeOnly(raw.v.l[1].m)).v
  /\ outcome.v[1] # IndexEntry(raw.v.l[1].m).v

-----------------------------------------------------------------------------
SharedMethods == {"search", "by_user", "details", "top100"}

\* what the method of the given client makes of the response of this call
OutcomeIn(client) == MethodOutcome(call.op, ClientRequest(client, call.endpoint, resp))

\* C27: search, by_user, details and top100 of the blocking and of the
\* non-blocking client map the same transport response to the same outcome:
\* the same records, the same 'not found' or the same error.
C27_BothClientsSameOutcome ==
  (pc = "returned" /\ call.op \in SharedMethods)
  => /\ OutcomeIn("sync") = OutcomeIn("async")
     /\ outcome = OutcomeIn("sync")

\* the non-blocking search received a 2xx body that begins with no bracket
\* and ended, as the blocking one does, in a content error
C27_Witness ==
  /\ Returned("search") /\ call.client = "async"
  /\ resp.status = "ok" /\ ~TextIsFalse(resp.body)
  /\ ~StrippedStartsWithBracket(resp.body)
  /\ IsContentError(outcome)
  /\ outcome = OutcomeIn("sync")

-----------------------------------------------------------------------------
\* the normalizer the method hands its payload to, if it hands it to one
ParserOf(frame) ==
  IF ~frame.raw.ok THEN "none"
  ELSE IF frame.op \in {"search", "by_user", "top100"} /\ IsList(frame.raw.v)
  THEN "parse_torrent_list"
  ELSE IF frame.op = "details" /\ IsMap(frame.raw.v) THEN "parse_torrent_details"
  ELSE IF frame.op = "file_list" /\ IsList(frame.raw.v) THEN "parse_file_list"
  ELSE "none"

Parsed(c) == Answered(c) /\ ParserOf(calls[c]) # "none"

SameParserSamePayload(c, d) ==
  /\ Parsed(c) /\ Parsed(d)
  /\ ParserOf(calls[c]) = ParserOf(calls[d])
  /\ calls[c].raw = calls[d].raw

-----------------------------------------------------------------------------
\* the sessions the client created that are open
OpenLibrarySessions ==
  {n \in 1..Len(sessions) : sessions[n].owner = "library" /\ sessions[n].open}

\* C29: whatever set_base_url, close and context exits a TPBClient has run,
\* at most one session it created is open, and that one is its current
\* session; after close or a context exit its current session is closed.
C29_BlockingClientHoldsOneSession ==
  self.kind = "sync"
  => /\ Cardinality(OpenLibrarySessions) <= 1
     /\ OpenLibrarySessions \subseteq {self.session}
     /\ lifecycle \in {"close", "exit"} => OpenLibrarySessions = {}

\* a TPBClient that replaced its session by set_base_url and then left its
\* `with` block: both sessions are closed
C29_Witness ==
  /\ self.kind = "sync"
  /\ Len(sessions) = 2 /\ self.session = 2
  /\ lifecycle = "exit"
  /\ ~sessions[1].open /\ ~sessions[2].open

=============================================================================
